---- MODULE Spec2Model ----
(***************************************************************************)
(* Client-side JSON-RPC 2.0 correlation: the nonce counter behind          *)
(* build_request / last_nonce (src/src/client.rs), the single-response     *)
(* validation of send_request and the batch reconciliation of send_batch.  *)
(***************************************************************************)
EXTENDS Integers, Sequences, FiniteSets, TLC

\* ---------------------------------------------------------------- bounds
\* build_request calls per behaviour (the u64 nonce is capped here).
MaxNonce == 3
\* longest request slice handed to send_batch.
MaxBatch == 2

\* ---------------------------------------------------------------- values
\* Tasks sharing one Client (&self).
Callers == {"c1", "c2"}
\* The caller of the sequential specification.
Solo == "c1"

NoHolder == "none"

\* Option<T>: None is the empty sequence, Some(x) the one-element sequence.
None == << >>
Some(x) == << x >>

\* serde_json::Value restricted to the id kinds: null, number, string.
\* A string id is represented by the number its text spells ("1" is Str(1)).
Null == [kind |-> "null", val |-> 0]
Num(n) == [kind |-> "num", val |-> n]
Str(n) == [kind |-> "str", val |-> n]

\* Ids a caller can put in a hand-built Request (the fields are pub).
HandIds == {Null, Str(1)}
\* Ids a server answers a single request with.
ServerIds == {Null, Str(1)} \cup {Num(n) : n \in 1..MaxNonce}
\* Ids occurring in batches.
BatchIds == {Null, Num(1), Str(1)}

\* struct Request { method, params, id, jsonrpc }
Request(id) == [method |-> "test", id |-> id, jsonrpc |-> Some("2.0")]

\* struct Response { result, error, id, jsonrpc }
Response(result, error, id, jsonrpc) ==
    [result |-> result, error |-> error, id |-> id, jsonrpc |-> jsonrpc]

RpcErrors == {[code |-> -32601, message |-> "Method not found"],
              [code |-> -32600, message |-> "Invalid Request"]}
\* Responses to a single request.
SingleResponses ==
    {Response(r, e, i, v) : r \in {None, Some(Num(7))},
                            e \in {None} \cup {Some(x) : x \in RpcErrors},
                            i \in ServerIds,
                            v \in {None, Some("2.0"), Some("1.0")}}
\* Responses the concurrent callers receive.
SharedResponses ==
    {Response(Some(Num(7)), None, i, Some(v)) : i \in {Null, Num(1)}, v \in {"2.0", "1.0"}}
\* Responses inside a batch answer.
BatchResponses ==
    {Response(Some(Num(r)), None, i, Some("2.0")) : r \in {7, 19}, i \in BatchIds}

\* Responses a caller extracts a result from (Response's fields are pub).
ExtractResponses ==
    {Response(r, e, i, Some("2.0")) :
         r \in {None, Some(Null), Some(Num(7)), Some(Str(1))},
         e \in {None} \cup {Some(x) : x \in RpcErrors},
         i \in {Null, Num(1)}}
\* The types T a caller asks for: (), String, u64.
Types == {"unit", "String", "u64"}

RECURSIVE SeqsUpTo(_, _)
SeqsUpTo(S, n) ==
    IF n = 0 THEN {<< >>}
    ELSE LET shorter == SeqsUpTo(S, n - 1)
         IN shorter \cup {Append(s, x) : s \in {t \in shorter : Len(t) = n - 1}, x \in S}

\* Result<T, Error>
Ok(v) == [ok |-> TRUE, kind |-> "Ok", val |-> v]
Err(kind, v) == [ok |-> FALSE, kind |-> kind, val |-> v]

\* ---------------------------------------------------------------- state
VARIABLES
    nonce,      \* Client.nonce: the u64 behind Arc<Mutex<u64>>
    lock,       \* holder of the nonce mutex, or NoHolder
    pc,         \* each caller's position
    built,      \* Option<Request>: what the caller's last build_request returned
    requests,   \* the request(s) passed to the caller's running send_*
    responses,  \* the response(s) send_raw parsed for the caller
    result,     \* Option<Result>: what the caller's finished call returned
    wire,       \* Option<payload>: the payload the caller handed to the transport
    issued,     \* ids returned by build_request, in order of return
    before,     \* number of build_request calls returned when the caller's began
    want,       \* Option<T>: the type the caller asked the result to be decoded into
    peek,       \* Option<[T, out]>: what result() gave for the response still held
    rpc         \* whether the caller is inside do_rpc

vars == << nonce, lock, pc, built, requests, responses, result, wire, issued, before,
           want, peek, rpc >>

\* Client::new: nonce: Arc::new(Mutex::new(0))
Init ==
    /\ nonce = 0
    /\ lock = NoHolder
    /\ pc = [c \in Callers |-> "idle"]
    /\ built = [c \in Callers |-> None]
    /\ requests = [c \in Callers |-> << >>]
    /\ responses = [c \in Callers |-> << >>]
    /\ result = [c \in Callers |-> None]
    /\ wire = [c \in Callers |-> None]
    /\ issued = << >>
    /\ before = [c \in Callers |-> 0]
    /\ want = [c \in Callers |-> None]
    /\ peek = [c \in Callers |-> None]
    /\ rpc = [c \in Callers |-> FALSE]

Building == {c \in Callers : pc[c] \in {"br_lock", "br_inc", "br_make", "br_ret"}}

\* ---------------------------------------------------------------- build_request
\* The call begins; the caller is about to take the nonce mutex.
BuildRequestCall(c) ==
    /\ pc[c] = "idle"
    /\ Len(issued) + Cardinality(Building) < MaxNonce
    /\ pc' = [pc EXCEPT ![c] = "br_lock"]
    /\ before' = [before EXCEPT ![c] = Len(issued)]
    /\ UNCHANGED << nonce, lock, built, requests, responses, result, wire, issued, want, peek, rpc >>

\* (mutant: the nonce is not behind a mutex)
BrAcquireNoMutex(c) ==
    /\ pc[c] = "br_lock"
    /\ lock' = c
    /\ pc' = [pc EXCEPT ![c] = "br_inc"]
    /\ UNCHANGED << nonce, built, requests, responses, result, wire, issued, before, want, peek, rpc >>

\* self.nonce.lock().unwrap(): blocks until the mutex is free.
BrAcquire(c) ==
    /\ pc[c] = "br_lock"
    /\ lock = NoHolder
    /\ lock' = c
    /\ pc' = [pc EXCEPT ![c] = "br_inc"]
    /\ UNCHANGED << nonce, built, requests, responses, result, wire, issued, before, want, peek, rpc >>

\* *nonce += 1
BrIncrement(c) ==
    /\ pc[c] = "br_inc"
    /\ nonce' = nonce + 1
    /\ pc' = [pc EXCEPT ![c] = "br_make"]
    /\ UNCHANGED << lock, built, requests, responses, result, wire, issued, before, want, peek, rpc >>

\* Request { method, params, id: From::from(*nonce), jsonrpc: Some("2.0") }
BrMake(c) ==
    /\ pc[c] = "br_make"
    /\ built' = [built EXCEPT ![c] = Some(Request(Num(nonce)))]
    /\ pc' = [pc EXCEPT ![c] = "br_ret"]
    /\ UNCHANGED << nonce, lock, requests, responses, result, wire, issued, before, want, peek, rpc >>

\* (mutant: inside do_rpc the MutexGuard lives on, across the await)
BrReturnGuardKept(c) ==
    /\ pc[c] = "br_ret"
    /\ lock' = IF rpc[c] THEN lock ELSE NoHolder
    /\ issued' = Append(issued, built[c][1].id.val)
    /\ pc' = [pc EXCEPT ![c] = IF rpc[c] THEN "rpc_send" ELSE "idle"]
    /\ UNCHANGED << nonce, built, requests, responses, result, wire, before, want, peek, rpc >>

\* The function returns the Request; the MutexGuard goes out of scope.
BrReturn(c) ==
    /\ pc[c] = "br_ret"
    /\ lock' = NoHolder
    /\ issued' = Append(issued, built[c][1].id.val)
    /\ pc' = [pc EXCEPT ![c] = IF rpc[c] THEN "rpc_send" ELSE "idle"]
    /\ UNCHANGED << nonce, built, requests, responses, result, wire, before, want, peek, rpc >>

\* ---------------------------------------------------------------- last_nonce
LastNonceCall(c) ==
    /\ pc[c] = "idle"
    /\ pc' = [pc EXCEPT ![c] = "ln_lock"]
    /\ UNCHANGED << nonce, lock, built, requests, responses, result, wire, issued, before, want, peek, rpc >>

\* (mutant: last_nonce reads the counter without waiting for the mutex)
LnAcquireNoMutex(c) ==
    /\ pc[c] = "ln_lock"
    /\ pc' = [pc EXCEPT ![c] = "ln_read"]
    /\ UNCHANGED << nonce, lock, built, requests, responses, result, wire, issued, before, want, peek, rpc >>

\* self.nonce.lock().unwrap()
LnAcquire(c) ==
    /\ pc[c] = "ln_lock"
    /\ lock = NoHolder
    /\ lock' = c
    /\ pc' = [pc EXCEPT ![c] = "ln_read"]
    /\ UNCHANGED << nonce, built, requests, responses, result, wire, issued, before, want, peek, rpc >>

\* The value read through the guard.
LastNonceValue == nonce

\* *guard is copied out and the temporary guard is dropped.
LnReturn(c) ==
    /\ pc[c] = "ln_read"
    /\ result' = [result EXCEPT ![c] = Some(Ok(LastNonceValue))]
    /\ lock' = NoHolder
    /\ pc' = [pc EXCEPT ![c] = "ln_done"]
    /\ UNCHANGED << nonce, built, requests, responses, wire, issued, before, want, peek, rpc >>

\* ---------------------------------------------------------------- caller
\* The caller takes the value its finished call returned and goes on.
Return(c) ==
    /\ pc[c] \in {"ln_done", "sr_done", "sb_done", "rs_done", "ir_done", "ie_done", "rpc_done"}
    /\ pc[c] = "sr_done" => ~rpc[c]
    /\ pc' = [pc EXCEPT ![c] = "idle"]
    /\ requests' = [requests EXCEPT ![c] = << >>]
    /\ responses' = [responses EXCEPT ![c] = << >>]
    /\ result' = [result EXCEPT ![c] = None]
    /\ wire' = [wire EXCEPT ![c] = None]
    /\ want' = [want EXCEPT ![c] = None]
    /\ peek' = [peek EXCEPT ![c] = None]
    /\ rpc' = [rpc EXCEPT ![c] = FALSE]
    /\ UNCHANGED << nonce, lock, built, issued, before >>

\* ---------------------------------------------------------------- Response
\* What deserializing a serde_json value into T gives: () takes null only,
\* String a string only, u64 a non-negative number only.
Decode(v, T) ==
    IF T = "unit" /\ v.kind = "null" THEN Ok([ty |-> "unit", val |-> 0])
    ELSE IF T = "String" /\ v.kind = "str" THEN Ok([ty |-> "String", val |-> v.val])
    ELSE IF T = "u64" /\ v.kind = "num" /\ v.val >= 0 THEN Ok([ty |-> "u64", val |-> v.val])
    ELSE Err("Json", None)

\* Option::unwrap_or
UnwrapOr(opt, default) == IF opt = None THEN default ELSE opt[1]

\* (mutant: a result that is present wins over the error)
ResultOfPrefersResult(response, T) ==
    IF response.result # None THEN Decode(response.result[1], T)
    ELSE IF response.error # None THEN Err("Rpc", response.error[1])
    ELSE Decode(Null, T)

\* Response::result: if let Some(e) = &self.error { Err(Rpc(e.clone())) }, else
\* T::deserialize(self.result.as_ref().unwrap_or(&Value::Null)).map_err(Error::Json)
ResultOf(response, T) ==
    IF response.error # None THEN Err("Rpc", response.error[1])
    ELSE Decode(UnwrapOr(response.result, Null), T)

\* (mutant: an absent result is not replaced by null)
IntoResultAbsentFails(response, T) ==
    IF response.error # None THEN Err("Rpc", response.error[1])
    ELSE IF response.result = None THEN Err("Json", None)
    ELSE Decode(response.result[1], T)

\* (mutant: the error is surfaced only when there is no result)
IntoResultErrorLast(response, T) ==
    IF response.result # None /\ Decode(response.result[1], T).ok
    THEN Decode(response.result[1], T)
    ELSE IF response.error # None THEN Err("Rpc", response.error[1])
    ELSE Decode(UnwrapOr(response.result, Null), T)

\* Response::into_result: if let Some(e) = self.error { Err(Rpc(e)) }, else
\* serde_json::from_value(self.result.unwrap_or(Value::Null)).map_err(Error::Json)
IntoResult(response, T) ==
    IF response.error # None THEN Err("Rpc", response.error[1])
    ELSE Decode(UnwrapOr(response.result, Null), T)

\* Response::is_error: self.error.is_some()
IsError(response) == response.error # None

\* response.result::<T>() on a response the caller holds; &self is not changed.
ResultCall(c, response, T) ==
    /\ pc[c] = "idle"
    /\ responses' = [responses EXCEPT ![c] = << response >>]
    /\ want' = [want EXCEPT ![c] = Some(T)]
    /\ result' = [result EXCEPT ![c] = Some(ResultOf(response, T))]
    /\ pc' = [pc EXCEPT ![c] = "rs_done"]
    /\ UNCHANGED << nonce, lock, built, requests, wire, issued, before, peek, rpc >>

\* response.into_result::<T>(), on a fresh response or on the one result() was
\* just called on.
IntoResultCall(c, response, T) ==
    /\ \/ pc[c] = "idle" /\ peek' = peek
       \/ /\ pc[c] = "rs_done"
          /\ response = responses[c][1]
          /\ peek' = [peek EXCEPT ![c] = Some([T |-> want[c][1], out |-> result[c][1]])]
    /\ responses' = [responses EXCEPT ![c] = << response >>]
    /\ want' = [want EXCEPT ![c] = Some(T)]
    /\ result' = [result EXCEPT ![c] = Some(IntoResult(response, T))]
    /\ pc' = [pc EXCEPT ![c] = "ir_done"]
    /\ UNCHANGED << nonce, lock, built, requests, wire, issued, before, rpc >>

\* response.is_error()
IsErrorCall(c, response) ==
    /\ pc[c] = "idle"
    /\ responses' = [responses EXCEPT ![c] = << response >>]
    /\ result' = [result EXCEPT ![c] = Some(Ok(IsError(response)))]
    /\ pc' = [pc EXCEPT ![c] = "ie_done"]
    /\ UNCHANGED << nonce, lock, built, requests, wire, issued, before, want, peek, rpc >>

\* ---------------------------------------------------------------- send_raw
\* Error kinds send_raw's three `?` can produce: the request or the body
\* stream fails (hyper), or the body is not the expected JSON (serde_json).
TransportErrors == {"Hyper", "Json"}

\* ---------------------------------------------------------------- send_request
\* Requests a caller can pass: the one build_request gave it, or a hand-built one.
RequestArgs(c) ==
    {built[c][i] : i \in 1..Len(built[c])} \cup {Request(i) : i \in HandIds}

\* response.jsonrpc != None && response.jsonrpc != Some(From::from("2.0"))
VersionMismatch(response) ==
    response.jsonrpc # None /\ response.jsonrpc # Some("2.0")

\* (mutant: a null id, as servers put in error responses, is let through)
NonceMismatchNullTolerated(request, response) ==
    response.id # request.id /\ response.id # Null

\* response.id != request.id
NonceMismatch(request, response) == response.id # request.id

\* (mutant: the id is compared before the version)
ValidateIdFirst(request, response) ==
    IF NonceMismatch(request, response) THEN Err("NonceMismatch", None)
    ELSE IF VersionMismatch(response) THEN Err("VersionMismatch", None)
    ELSE Ok(response)

\* The checks of send_request after send_raw returned the response.
Validate(request, response) ==
    IF VersionMismatch(response) THEN Err("VersionMismatch", None)
    ELSE IF NonceMismatch(request, response) THEN Err("NonceMismatch", None)
    ELSE Ok(response)

\* send_request up to the await inside send_raw.
SendRequestCall(c, request) ==
    /\ \/ pc[c] = "idle"
       \/ pc[c] = "rpc_send" /\ request = built[c][1]
    /\ requests' = [requests EXCEPT ![c] = << request >>]
    /\ wire' = [wire EXCEPT ![c] = Some(request)]
    /\ pc' = [pc EXCEPT ![c] = "sr_await"]
    /\ UNCHANGED << nonce, lock, built, responses, result, issued, before, want, peek, rpc >>

\* send_raw returns Ok(parsed); the version and id checks run.
SrResponse(c, response) ==
    /\ pc[c] = "sr_await"
    /\ responses' = [responses EXCEPT ![c] = << response >>]
    /\ result' = [result EXCEPT ![c] = Some(Validate(requests[c][1], response))]
    /\ wire' = [wire EXCEPT ![c] = None]
    /\ pc' = [pc EXCEPT ![c] = "sr_done"]
    /\ UNCHANGED << nonce, lock, built, requests, issued, before, want, peek, rpc >>

\* send_raw returns Err; `?` propagates it.
SrTransportError(c, kind) ==
    /\ pc[c] = "sr_await"
    /\ result' = [result EXCEPT ![c] = Some(Err(kind, None))]
    /\ wire' = [wire EXCEPT ![c] = None]
    /\ pc' = [pc EXCEPT ![c] = "sr_done"]
    /\ UNCHANGED << nonce, lock, built, requests, responses, issued, before, want, peek, rpc >>

\* ---------------------------------------------------------------- do_rpc
\* let request = self.build_request(rpc_name, args): the call enters build_request.
DoRpcCall(c, T) ==
    /\ pc[c] = "idle"
    /\ Len(issued) + Cardinality(Building) < MaxNonce
    /\ pc' = [pc EXCEPT ![c] = "br_lock"]
    /\ before' = [before EXCEPT ![c] = Len(issued)]
    /\ rpc' = [rpc EXCEPT ![c] = TRUE]
    /\ want' = [want EXCEPT ![c] = Some(T)]
    /\ UNCHANGED << nonce, lock, built, requests, responses, result, wire, issued, peek >>

\* self.send_request(&request).await? and then Ok(response.into_result()?)
DoRpcOutcome(sent, T) ==
    IF ~sent.ok THEN sent ELSE IntoResult(sent.val, T)

\* (mutant: a failed do_rpc hands its nonce back)
DoRpcFinishGivesBack(c) ==
    /\ pc[c] = "sr_done"
    /\ rpc[c]
    /\ result' = [result EXCEPT ![c] = Some(DoRpcOutcome(result[c][1], want[c][1]))]
    /\ nonce' = IF DoRpcOutcome(result[c][1], want[c][1]).ok THEN nonce ELSE nonce - 1
    /\ pc' = [pc EXCEPT ![c] = "rpc_done"]
    /\ UNCHANGED << lock, built, requests, responses, wire, issued, before,
                    want, peek, rpc >>

\* send_request has returned to do_rpc.
DoRpcFinish(c) ==
    /\ pc[c] = "sr_done"
    /\ rpc[c]
    /\ result' = [result EXCEPT ![c] = Some(DoRpcOutcome(result[c][1], want[c][1]))]
    /\ pc' = [pc EXCEPT ![c] = "rpc_done"]
    /\ UNCHANGED << nonce, lock, built, requests, responses, wire, issued, before,
                    want, peek, rpc >>

\* ---------------------------------------------------------------- HashableValue, HashMap
\* HashableValue's Eq: equality of the wrapped serde_json values.
HashableValueEq(a, b) == a = b

\* HashMap::new()
EmptyMap == [k \in {} |-> None]

\* The stored key equal to k, if any (at most one).
Slot(m, k) == {x \in DOMAIN m : HashableValueEq(x, k)}

\* (mutant: a null key is stored without looking for a previous one)
HashMapInsertNullUnchecked(m, k, v) ==
    IF Slot(m, k) = {} \/ k = Null
    THEN [map |-> [x \in DOMAIN m \cup {k} |-> IF x = k THEN v ELSE m[x]], old |-> None]
    ELSE LET x == CHOOSE y \in Slot(m, k) : TRUE
         IN [map |-> [m EXCEPT ![x] = v], old |-> Some(m[x])]

\* HashMap::insert: the new map and the value previously stored at the key.
HashMapInsert(m, k, v) ==
    IF Slot(m, k) = {}
    THEN [map |-> [x \in DOMAIN m \cup {k} |-> IF x = k THEN v ELSE m[x]], old |-> None]
    ELSE LET x == CHOOSE y \in Slot(m, k) : TRUE
         IN [map |-> [m EXCEPT ![x] = v], old |-> Some(m[x])]

\* HashMap::remove: the new map and the value removed.
HashMapRemove(m, k) ==
    IF Slot(m, k) = {}
    THEN [map |-> m, old |-> None]
    ELSE LET x == CHOOSE y \in Slot(m, k) : TRUE
         IN [map |-> [y \in DOMAIN m \ {x} |-> m[y]], old |-> Some(m[x])]

\* ---------------------------------------------------------------- send_batch
BatchRequests == {Request(i) : i \in BatchIds}

\* (mutant: the emptiness check is missing)
EmptyBatchUnchecked(reqs) == FALSE

\* requests.len() < 1
EmptyBatch(reqs) == Len(reqs) < 1

\* (mutant: answers as long as the batch are refused too)
WrongBatchResponseSizeGe(reqs, resps) == Len(resps) >= Len(reqs)

\* (mutant: one response too many is let through)
WrongBatchResponseSizeOffByOne(reqs, resps) == Len(resps) > Len(reqs) + 1

\* responses.len() > requests.len()
WrongBatchResponseSize(reqs, resps) == Len(resps) > Len(reqs)

\* for (id, resp) in ids.iter().zip(responses.into_iter()): insert, and stop at
\* the first insert that returns a previous value.  [map, dup: Option<Response>]
RECURSIVE IndexFrom(_, _, _)
IndexFrom(resps, i, m) ==
    IF i > Len(resps) THEN [map |-> m, dup |-> None]
    ELSE LET ins == HashMapInsert(m, resps[i].id, resps[i])
         IN IF ins.old # None THEN [map |-> ins.map, dup |-> ins.old]
            ELSE IndexFrom(resps, i + 1, ins.map)

\* (mutant: the value insert returns is ignored, the last response of an id stays)
IndexByIdKeepLast(resps) ==
    [map |-> [k \in {resps[i].id : i \in 1..Len(resps)} |->
                 resps[CHOOSE i \in 1..Len(resps) :
                           /\ resps[i].id = k
                           /\ \A j \in (i + 1)..Len(resps) : resps[j].id # k]],
     dup |-> None]

IndexById(resps) == IndexFrom(resps, 1, EmptyMap)

\* requests.into_iter().map(|r| resp_by_id.remove(&HashableValue(&r.id))).collect()
\* [results: Vec<Option<Response>>, map: what is left in resp_by_id]
RECURSIVE MatchFrom(_, _, _, _)
MatchFrom(reqs, i, m, acc) ==
    IF i > Len(reqs) THEN [results |-> acc, map |-> m]
    ELSE LET rem == HashMapRemove(m, reqs[i].id)
         IN MatchFrom(reqs, i + 1, rem.map, Append(acc, rem.old))

\* (mutant: the results are collected in the opposite order)
MatchRequestsReversed(reqs, m) ==
    LET mt == MatchFrom(reqs, 1, m, << >>)
        n == Len(mt.results)
    IN [results |-> [i \in 1..n |-> mt.results[n + 1 - i]], map |-> mt.map]

\* (mutant: the responses are looked up with get(), and the ids asked for are
\* dropped from the map afterwards)
MatchRequestsLookup(reqs, m) ==
    [results |-> [i \in 1..Len(reqs) |->
                     IF Slot(m, reqs[i].id) = {} THEN None
                     ELSE Some(m[CHOOSE y \in Slot(m, reqs[i].id) : TRUE])],
     map |-> [k \in {x \in DOMAIN m : \A i \in 1..Len(reqs) : reqs[i].id # x} |-> m[k]]]

MatchRequests(reqs, m) == MatchFrom(reqs, 1, m, << >>)

\* (mutant: what is left in resp_by_id is not looked at)
FirstRemainingIgnored(m) == {}

\* resp_by_id.into_iter().nth(0): std's HashMap iterates in an arbitrary order
\* (RandomState), so any remaining entry can come first.
FirstRemaining(m) == {m[k] : k \in DOMAIN m}

\* (mutant: the responses are matched to the requests before duplicates are
\* looked for)
ReconcileMatchFirst(reqs, resps) ==
    IF WrongBatchResponseSize(reqs, resps)
    THEN {Err("WrongBatchResponseSize", None)}
    ELSE LET mt == MatchRequests(reqs, IndexByIdKeepLast(resps).map)
             idx == IndexById(resps)
         IN IF FirstRemaining(mt.map) # {}
            THEN {Err("WrongBatchResponseId", incorrect.id) :
                      incorrect \in FirstRemaining(mt.map)}
            ELSE IF idx.dup # None
                 THEN {Err("BatchDuplicateResponseId", idx.dup[1].id)}
                 ELSE {Ok(mt.results)}

\* The values send_batch can return once send_raw has returned the responses.
Reconcile(reqs, resps) ==
    IF WrongBatchResponseSize(reqs, resps)
    THEN {Err("WrongBatchResponseSize", None)}
    ELSE LET idx == IndexById(resps)
         IN IF idx.dup # None
            THEN {Err("BatchDuplicateResponseId", idx.dup[1].id)}
            ELSE LET mt == MatchRequests(reqs, idx.map)
                 IN IF FirstRemaining(mt.map) # {}
                    THEN {Err("WrongBatchResponseId", incorrect.id) :
                              incorrect \in FirstRemaining(mt.map)}
                    ELSE {Ok(mt.results)}

\* send_batch up to the await inside send_raw, or to the EmptyBatch return.
SendBatchCall(c, reqs) ==
    /\ pc[c] = "idle"
    /\ requests' = [requests EXCEPT ![c] = reqs]
    /\ IF EmptyBatch(reqs)
       THEN /\ result' = [result EXCEPT ![c] = Some(Err("EmptyBatch", None))]
            /\ pc' = [pc EXCEPT ![c] = "sb_done"]
            /\ UNCHANGED wire
       ELSE /\ wire' = [wire EXCEPT ![c] = Some(reqs)]
            /\ pc' = [pc EXCEPT ![c] = "sb_await"]
            /\ UNCHANGED result
    /\ UNCHANGED << nonce, lock, built, responses, issued, before, want, peek, rpc >>

\* send_raw returns Ok(responses); the reconciliation runs.
SbResponse(c, resps) ==
    /\ pc[c] = "sb_await"
    /\ responses' = [responses EXCEPT ![c] = resps]
    /\ \E r \in Reconcile(requests[c], resps) :
           result' = [result EXCEPT ![c] = Some(r)]
    /\ wire' = [wire EXCEPT ![c] = None]
    /\ pc' = [pc EXCEPT ![c] = "sb_done"]
    /\ UNCHANGED << nonce, lock, built, requests, issued, before, want, peek, rpc >>

\* send_raw returns Err; `?` propagates it.
SbTransportError(c, kind) ==
    /\ pc[c] = "sb_await"
    /\ result' = [result EXCEPT ![c] = Some(Err(kind, None))]
    /\ wire' = [wire EXCEPT ![c] = None]
    /\ pc' = [pc EXCEPT ![c] = "sb_done"]
    /\ UNCHANGED << nonce, lock, built, requests, responses, issued, before, want, peek, rpc >>

\* ---------------------------------------------------------------- specifications
\* Callers of one shared Client building requests, reading the nonce and
\* sending single requests concurrently.
Next ==
    \E c \in Callers :
        \/ BuildRequestCall(c)
        \/ BrAcquire(c)
        \/ BrIncrement(c)
        \/ BrMake(c)
        \/ BrReturn(c)
        \/ LastNonceCall(c)
        \/ LnAcquire(c)
        \/ LnReturn(c)
        \/ \E request \in RequestArgs(c) : SendRequestCall(c, request)
        \/ \E response \in SharedResponses : SrResponse(c, response)
        \/ \E kind \in TransportErrors : SrTransportError(c, kind)
        \/ \E T \in Types : DoRpcCall(c, T)
        \/ DoRpcFinish(c)
        \/ Return(c)

Spec == Init /\ [][Next]_vars

\* The same callers under a fair scheduler and a fair mutex: a caller that can
\* run its next step inside build_request or last_nonce does, and a caller
\* waiting for the mutex gets it if it is free again and again.  Nothing is
\* assumed of the transport: a send may never be answered.
Fairness ==
    \A c \in Callers :
        /\ SF_vars(BrAcquire(c)) /\ SF_vars(LnAcquire(c))
        /\ WF_vars(BrIncrement(c)) /\ WF_vars(BrMake(c)) /\ WF_vars(BrReturn(c))
        /\ WF_vars(LnReturn(c))

\* Its callers build requests, read the nonce, run do_rpc and send the request
\* they built or a batch of one; a single request is answered with the id 1 or
\* a null id, or fails in the transport, or stays unanswered.
FairResponses ==
    {Response(Some(Num(7)), None, i, Some("2.0")) : i \in {Null, Num(1)}}

NextFair ==
    \E c \in Callers :
        \/ BuildRequestCall(c)
        \/ BrAcquire(c)
        \/ BrIncrement(c)
        \/ BrMake(c)
        \/ BrReturn(c)
        \/ LastNonceCall(c)
        \/ LnAcquire(c)
        \/ LnReturn(c)
        \/ DoRpcCall(c, "u64")
        \/ \E i \in 1..Len(built[c]) : SendRequestCall(c, built[c][i])
        \/ \E response \in FairResponses : SrResponse(c, response)
        \/ SrTransportError(c, "Hyper")
        \/ SendBatchCall(c, << Request(Null) >>)
        \/ SbTransportError(c, "Hyper")
        \/ DoRpcFinish(c)
        \/ Return(c)

SpecFair == Init /\ [][NextFair]_vars /\ Fairness

\* One caller using the whole client, batches included.
BatchArgs == SeqsUpTo(BatchRequests, MaxBatch)
\* The server may answer with one response more than it was asked for.
BatchAnswers == SeqsUpTo(BatchResponses, MaxBatch + 1)

NextSolo ==
    \/ BuildRequestCall(Solo)
    \/ BrAcquire(Solo)
    \/ BrIncrement(Solo)
    \/ BrMake(Solo)
    \/ BrReturn(Solo)
    \/ LastNonceCall(Solo)
    \/ LnAcquire(Solo)
    \/ LnReturn(Solo)
    \/ \E request \in RequestArgs(Solo) : SendRequestCall(Solo, request)
    \/ \E response \in SingleResponses : SrResponse(Solo, response)
    \/ \E kind \in TransportErrors : SrTransportError(Solo, kind)
    \/ \E reqs \in BatchArgs : SendBatchCall(Solo, reqs)
    \/ \E resps \in BatchAnswers : SbResponse(Solo, resps)
    \/ \E kind \in TransportErrors : SbTransportError(Solo, kind)
    \/ \E T \in Types : DoRpcCall(Solo, T)
    \/ DoRpcFinish(Solo)
    \/ \E response \in ExtractResponses, T \in Types : ResultCall(Solo, response, T)
    \/ \E response \in ExtractResponses, T \in Types : IntoResultCall(Solo, response, T)
    \/ \E response \in ExtractResponses : IsErrorCall(Solo, response)
    \/ Return(Solo)

SpecSolo == Init /\ [][NextSolo]_vars

\* ================================================================ claims
\* The caller's send_batch has returned.
BatchDone(c) == pc[c] = "sb_done" /\ result[c] # None
\* ... and send_raw had delivered the server's responses to it.
Answered(c) ==
    /\ BatchDone(c)
    /\ requests[c] # << >>
    /\ result[c][1].kind \notin TransportErrors
\* Positions of the responses carrying id.
Hits(resps, id) == {j \in 1..Len(resps) : resps[j].id = id}
\* Two responses share an id.
HasDuplicate(resps) ==
    \E i, j \in 1..Len(resps) : i < j /\ resps[i].id = resps[j].id
\* Positions of the responses whose id is no request's id.
Unmatched(reqs, resps) ==
    {j \in 1..Len(resps) : \A i \in 1..Len(reqs) : reqs[i].id # resps[j].id}
Min(S) == CHOOSE x \in S : \A y \in S : x <= y

\* C1: the ids build_request has returned are the distinct integers 1..n, n the
\* number of returned calls, and a call gets an id larger than the id of every
\* call that had returned before it began.
C1_DistinctConsecutiveIds ==
    /\ {issued[i] : i \in 1..Len(issued)} = 1..Len(issued)
    /\ \A i, j \in 1..Len(issued) : i # j => issued[i] # issued[j]
    /\ \A c \in Callers :
           pc[c] = "br_ret" =>
               /\ built[c][1].id.kind = "num"
               /\ \A i \in 1..before[c] : issued[i] < built[c][1].id.val

\* One caller holds its new request, having begun after a call had returned,
\* while the other caller waits for the mutex.
C1_Witness ==
    \E c, d \in Callers :
        /\ c # d
        /\ pc[c] = "br_ret" /\ before[c] >= 1
        /\ pc[d] = "br_lock"

\* C2 as stated: a successful send_batch returns one entry per request, entry i
\* being Some(response with the request's id) if the responses hold that id
\* and None otherwise.
C2_AlignedWhereverAnswered ==
    \A c \in Callers :
        (Answered(c) /\ result[c][1].ok) =>
            LET reqs == requests[c]
                resps == responses[c]
                out == result[c][1].val
            IN /\ Len(out) = Len(reqs)
               /\ \A i \in 1..Len(reqs) :
                      IF Hits(resps, reqs[i].id) # {}
                      THEN \E j \in Hits(resps, reqs[i].id) : out[i] = Some(resps[j])
                      ELSE out[i] = None

\* C2 amended: entry i is Some(response with the request's id) if the responses
\* hold that id and no earlier request of the batch has the same id, and None
\* otherwise.
C2_AlignedFirstRequestWins ==
    \A c \in Callers :
        (Answered(c) /\ result[c][1].ok) =>
            LET reqs == requests[c]
                resps == responses[c]
                out == result[c][1].val
            IN /\ Len(out) = Len(reqs)
               /\ \A i \in 1..Len(reqs) :
                      IF /\ Hits(resps, reqs[i].id) # {}
                         /\ \A k \in 1..(i - 1) : reqs[k].id # reqs[i].id
                      THEN \E j \in Hits(resps, reqs[i].id) : out[i] = Some(resps[j])
                      ELSE out[i] = None

\* Two requests with different ids were answered in reverse order, successfully.
C2_Witness ==
    \E c \in Callers :
        /\ Answered(c) /\ result[c][1].ok
        /\ Len(requests[c]) = 2 /\ Len(responses[c]) = 2
        /\ requests[c][1].id # requests[c][2].id
        /\ responses[c][1].id = requests[c][2].id
        /\ responses[c][2].id = requests[c][1].id

\* C3: a send_batch that got past the transport succeeds exactly when the batch
\* is non-empty, there are no more responses than requests, the response ids
\* are pairwise distinct and each is the id of some request; unanswered
\* positions of a success hold None.
C3_SucceedsIff ==
    \A c \in Callers :
        (BatchDone(c) /\ result[c][1].kind \notin TransportErrors) =>
            LET reqs == requests[c]
                resps == responses[c]
                r == result[c][1]
            IN /\ r.ok <=> /\ Len(reqs) >= 1
                           /\ Len(resps) <= Len(reqs)
                           /\ ~HasDuplicate(resps)
                           /\ Unmatched(reqs, resps) = {}
               /\ r.ok => \A i \in 1..Len(reqs) :
                              Hits(resps, reqs[i].id) = {} => r.val[i] = None

\* A success in which the server left a request unanswered and answered another.
C3_Witness ==
    \E c \in Callers :
        /\ Answered(c) /\ result[c][1].ok
        /\ Len(responses[c]) >= 1
        /\ \E i \in 1..Len(requests[c]) : result[c][1].val[i] = None

\* C4: send_batch on an empty slice returns EmptyBatch in the step that takes
\* the call, without handing anything to the transport and without touching
\* the nonce; an empty payload is never in transit.
C4_EmptyBatchNotSent ==
    [][\A c \in Callers :
          (pc[c] = "idle" /\ pc'[c] \in {"sb_await", "sb_done"} /\ requests'[c] = << >>) =>
              /\ pc'[c] = "sb_done"
              /\ result'[c] # None
              /\ result'[c][1].kind = "EmptyBatch"
              /\ wire' = wire
              /\ nonce' = nonce]_vars

\* EmptyBatch was returned by a client that has already issued a request.
C4_Witness ==
    \E c \in Callers :
        /\ BatchDone(c) /\ result[c][1].kind = "EmptyBatch"
        /\ requests[c] = << >> /\ wire[c] = None /\ nonce >= 1

\* C5: more responses than requests make send_batch fail with
\* WrongBatchResponseSize, whatever their ids.
C5_TooManyResponses ==
    \A c \in Callers :
        (Answered(c) /\ Len(responses[c]) > Len(requests[c])) =>
            result[c][1].kind = "WrongBatchResponseSize"

\* Too many responses, among them a duplicated id and an id of no request.
C5_Witness ==
    \E c \in Callers :
        /\ Answered(c) /\ Len(responses[c]) > Len(requests[c])
        /\ HasDuplicate(responses[c])
        /\ Unmatched(requests[c], responses[c]) # {}
        /\ result[c][1].kind = "WrongBatchResponseSize"

\* Position of the first response whose id an earlier response already has.
FirstRepeat(resps) ==
    Min({j \in 1..Len(resps) : \E i \in 1..(j - 1) : resps[i].id = resps[j].id})
\* Position of the response first stored at the id of resps[j].
FirstStored(resps, j) == Min(Hits(resps, resps[j].id))

\* C6 as stated: with the size check passed and a duplicated response id,
\* send_batch fails with BatchDuplicateResponseId carrying the response first
\* stored at that id.
C6_CarriesFirstResponse ==
    \A c \in Callers :
        (Answered(c) /\ Len(responses[c]) <= Len(requests[c])
                     /\ HasDuplicate(responses[c])) =>
            /\ result[c][1].kind = "BatchDuplicateResponseId"
            /\ result[c][1].val =
                   responses[c][FirstStored(responses[c], FirstRepeat(responses[c]))]

\* C6 amended: the error carries the id of the response first stored at that id
\* (the id the later duplicate has too), not the response.
C6_CarriesFirstResponseId ==
    \A c \in Callers :
        (Answered(c) /\ Len(responses[c]) <= Len(requests[c])
                     /\ HasDuplicate(responses[c])) =>
            /\ result[c][1].kind = "BatchDuplicateResponseId"
            /\ result[c][1].val =
                   responses[c][FirstStored(responses[c], FirstRepeat(responses[c]))].id

\* A duplicated id whose two responses differ, reported as a duplicate.
C6_Witness ==
    \E c \in Callers :
        /\ Answered(c) /\ Len(responses[c]) = 2 /\ Len(requests[c]) = 2
        /\ responses[c][1].id = responses[c][2].id
        /\ responses[c][1] # responses[c][2]
        /\ result[c][1].kind = "BatchDuplicateResponseId"

\* C7 as stated: with the size and duplicate checks passed and a response whose
\* id is no request's, send_batch fails with WrongBatchResponseId carrying an
\* unmatched response.
C7_CarriesUnmatchedResponse ==
    \A c \in Callers :
        (Answered(c) /\ Len(responses[c]) <= Len(requests[c])
                     /\ ~HasDuplicate(responses[c])
                     /\ Unmatched(requests[c], responses[c]) # {}) =>
            /\ result[c][1].kind = "WrongBatchResponseId"
            /\ \E j \in Unmatched(requests[c], responses[c]) :
                   result[c][1].val = responses[c][j]

\* C7 amended: the error carries the id of an unmatched response.
C7_CarriesUnmatchedId ==
    \A c \in Callers :
        (Answered(c) /\ Len(responses[c]) <= Len(requests[c])
                     /\ ~HasDuplicate(responses[c])
                     /\ Unmatched(requests[c], responses[c]) # {}) =>
            /\ result[c][1].kind = "WrongBatchResponseId"
            /\ \E j \in Unmatched(requests[c], responses[c]) :
                   result[c][1].val = responses[c][j].id

\* One response matches a request, the other matches none.
C7_Witness ==
    \E c \in Callers :
        /\ Answered(c) /\ Len(responses[c]) = 2 /\ Len(requests[c]) = 2
        /\ Cardinality(Unmatched(requests[c], responses[c])) = 1
        /\ result[c][1].kind = "WrongBatchResponseId"

\* C8: WrongBatchResponseId always reports the first unmatched response in
\* arrival order.
C8_FirstUnmatchedInArrivalOrder ==
    \A c \in Callers :
        (Answered(c) /\ result[c][1].kind = "WrongBatchResponseId") =>
            result[c][1].val =
                responses[c][Min(Unmatched(requests[c], responses[c]))].id

\* C9: send_request returns VersionMismatch for a present jsonrpc other than
\* "2.0", else NonceMismatch for an id other than the request's, else the
\* response as received.
C9_SendRequestChecks ==
    \A c \in Callers :
        (pc[c] = "sr_done" /\ responses[c] # << >>) =>
            LET request == requests[c][1]
                response == responses[c][1]
                r == result[c][1]
            IN IF response.jsonrpc # None /\ response.jsonrpc # Some("2.0")
               THEN ~r.ok /\ r.kind = "VersionMismatch"
               ELSE IF response.id # request.id
                    THEN ~r.ok /\ r.kind = "NonceMismatch"
                    ELSE r.ok /\ r.val = response

\* A response with both a wrong version and a wrong id was refused for its version.
C9_Witness ==
    \E c \in Callers :
        /\ pc[c] = "sr_done" /\ responses[c] # << >>
        /\ responses[c][1].jsonrpc = Some("1.0")
        /\ responses[c][1].id # requests[c][1].id
        /\ result[c][1].kind = "VersionMismatch"

\* C10: last_nonce returns the number of build_request calls that have
\* returned (0 on a new client), which is the id of the request returned last,
\* and leaves the nonce alone; the nonce changes only by the +1 of a
\* build_request.
C10_LastNonce ==
    [][/\ \A c \in Callers :
             (pc[c] = "ln_read" /\ pc'[c] = "ln_done") =>
                 /\ result'[c] = Some(Ok(Len(issued)))
                 /\ Len(issued) > 0 => result'[c][1].val = issued[Len(issued)]
                 /\ nonce' = nonce
       /\ nonce' # nonce =>
             /\ nonce' = nonce + 1
             /\ \E c \in Callers : pc[c] = "br_inc" /\ pc'[c] = "br_make"
       /\ \A c \in Callers :
             (pc[c] = "br_inc" /\ pc'[c] = "br_make") => nonce' = nonce + 1]_vars

\* last_nonce returned 2 while the other caller was building the next request.
C10_Witness ==
    \E c, d \in Callers :
        /\ pc[c] = "ln_done" /\ result[c] = Some(Ok(2))
        /\ pc[d] \in {"br_lock", "br_inc", "br_make", "br_ret"}

\* The caller's result() or into_result() has returned.
Extracted(c) == pc[c] \in {"rs_done", "ir_done"}

\* C11: result() and into_result() on a response whose error is set fail with
\* Rpc carrying that error, whatever the result field and the requested type.
C11_ErrorSurfaced ==
    \A c \in Callers :
        (Extracted(c) /\ responses[c][1].error # None) =>
            /\ ~result[c][1].ok
            /\ result[c][1].kind = "Rpc"
            /\ result[c][1].val = responses[c][1].error[1]
            /\ peek[c] # None =>
                   /\ peek[c][1].out.kind = "Rpc"
                   /\ peek[c][1].out.val = responses[c][1].error[1]

\* result() and then into_result() gave Rpc for a response that also holds a
\* result decodable into the requested type.
C11_Witness ==
    \E c \in Callers :
        /\ pc[c] = "ir_done" /\ peek[c] # None
        /\ responses[c][1].error = Some([code |-> -32600, message |-> "Invalid Request"])
        /\ responses[c][1].result = Some(Num(7))
        /\ want[c] = Some("u64") /\ peek[c][1].T = "u64"
        /\ result[c][1].kind = "Rpc"

\* C12: without an error, an absent result decodes as a null result does:
\* into () it succeeds, into String (or u64) it fails with Json.
C12_AbsentResultIsNull ==
    \A c \in Callers :
        (Extracted(c) /\ responses[c][1].error = None
                      /\ responses[c][1].result \in {None, Some(Null)}) =>
            IF want[c] = Some("unit")
            THEN result[c][1].ok /\ result[c][1].val.ty = "unit"
            ELSE ~result[c][1].ok /\ result[c][1].kind = "Json"

\* into_result::<()> succeeded on a response with neither result nor error.
C12_Witness ==
    \E c \in Callers :
        /\ pc[c] = "ir_done"
        /\ responses[c][1].error = None /\ responses[c][1].result = None
        /\ want[c] = Some("unit") /\ result[c][1].ok

\* C13: into_result() called on the response result() was called on, for the
\* same type, returns what result() returned.
C13_SameOutcome ==
    \A c \in Callers :
        (pc[c] = "ir_done" /\ peek[c] # None /\ want[c] = Some(peek[c][1].T)) =>
            LET a == peek[c][1].out
                b == result[c][1]
            IN /\ a.ok = b.ok
               /\ a.kind = b.kind
               /\ (a.ok \/ a.kind = "Rpc") => a.val = b.val

\* Both calls decoded the same string out of the same response.
C13_Witness ==
    \E c \in Callers :
        /\ pc[c] = "ir_done" /\ peek[c] # None
        /\ want[c] = Some("String") /\ peek[c][1].T = "String"
        /\ responses[c][1].error = None
        /\ result[c][1].ok /\ peek[c][1].out.ok

\* C14: is_error() returns true for a response whose error field is absent.
C14_IsErrorWithoutError ==
    \A c \in Callers :
        (pc[c] = "ie_done" /\ responses[c][1].error = None) => result[c][1].val = TRUE

\* C15: send_batch reports the first that applies of EmptyBatch,
\* WrongBatchResponseSize, BatchDuplicateResponseId, WrongBatchResponseId, and
\* succeeds when none does.
C15_EarliestCheckWins ==
    \A c \in Callers :
        (BatchDone(c) /\ result[c][1].kind \notin TransportErrors) =>
            result[c][1].kind =
                IF Len(requests[c]) < 1 THEN "EmptyBatch"
                ELSE IF Len(responses[c]) > Len(requests[c]) THEN "WrongBatchResponseSize"
                ELSE IF HasDuplicate(responses[c]) THEN "BatchDuplicateResponseId"
                ELSE IF Unmatched(requests[c], responses[c]) # {} THEN "WrongBatchResponseId"
                ELSE "Ok"

\* An answer within the size limit with a duplicated id that matches no
\* request was reported as a duplicate.
C15_Witness ==
    \E c \in Callers :
        /\ Answered(c) /\ Len(responses[c]) <= Len(requests[c])
        /\ \E i, j \in Unmatched(requests[c], responses[c]) :
               i < j /\ responses[c][i].id = responses[c][j].id
        /\ result[c][1].kind = "BatchDuplicateResponseId"

\* C16: two responses with a null id, in an answer within the size limit, make
\* send_batch fail with BatchDuplicateResponseId.
C16_NullIdsAreDuplicates ==
    \A c \in Callers :
        (Answered(c) /\ Len(responses[c]) <= Len(requests[c])
                     /\ Cardinality(Hits(responses[c], Null)) >= 2) =>
            result[c][1].kind = "BatchDuplicateResponseId"

\* Two null-id responses with different results, the only duplicate, refused.
C16_Witness ==
    \E c \in Callers :
        /\ Answered(c) /\ Len(responses[c]) = 2 /\ Len(requests[c]) = 2
        /\ responses[c][1].id = Null /\ responses[c][2].id = Null
        /\ responses[c][1].result # responses[c][2].result
        /\ result[c][1] = Err("BatchDuplicateResponseId", Null)

\* C17: in a successful send_batch each response is at exactly one position,
\* there are as many Some entries as responses, and of the requests that share
\* an id the first gets the response and the later ones None.
C17_EachResponseOnce ==
    \A c \in Callers :
        (Answered(c) /\ result[c][1].ok) =>
            LET reqs == requests[c]
                resps == responses[c]
                out == result[c][1].val
            IN /\ Cardinality({i \in 1..Len(out) : out[i] # None}) = Len(resps)
               /\ \A j \in 1..Len(resps) :
                      Cardinality({i \in 1..Len(out) : out[i] = Some(resps[j])}) = 1
               /\ \A i, k \in 1..Len(reqs) :
                      (i < k /\ reqs[i].id = reqs[k].id) => out[k] = None
               /\ \A i \in 1..Len(reqs) :
                      (/\ Hits(resps, reqs[i].id) # {}
                       /\ \A k \in 1..(i - 1) : reqs[k].id # reqs[i].id) =>
                          out[i] # None /\ out[i][1].id = reqs[i].id

\* Two requests with the same id, one response with it: [Some, None].
C17_Witness ==
    \E c \in Callers :
        /\ Answered(c) /\ result[c][1].ok
        /\ Len(requests[c]) = 2 /\ requests[c][1].id = requests[c][2].id
        /\ Len(responses[c]) = 1
        /\ result[c][1].val = << Some(responses[c][1]), None >>

\* C18: do_rpc sends the request it built and returns the transport's error,
\* else VersionMismatch, else NonceMismatch, else Rpc(error), else the decoded
\* result or Json: Rpc and Ok only for a response with a good version and the
\* request's id.
C18_DoRpcOrder ==
    \A c \in Callers :
        /\ (rpc[c] /\ pc[c] = "sr_await") =>
               requests[c] = << built[c][1] >> /\ wire[c] = Some(built[c][1])
        /\ pc[c] = "rpc_done" =>
               LET r == result[c][1]
               IN IF responses[c] = << >> THEN r.kind \in TransportErrors
                  ELSE LET response == responses[c][1]
                       IN IF response.jsonrpc # None /\ response.jsonrpc # Some("2.0")
                          THEN r.kind = "VersionMismatch"
                          ELSE IF response.id # requests[c][1].id
                               THEN r.kind = "NonceMismatch"
                               ELSE IF response.error # None
                                    THEN r.kind = "Rpc" /\ r.val = response.error[1]
                                    ELSE /\ r.kind \in {"Ok", "Json"}
                                         /\ r.ok => r.val.ty = want[c][1]

\* A server error answered with a null id came out of do_rpc as NonceMismatch.
C18_Witness ==
    \E c \in Callers :
        /\ pc[c] = "rpc_done"
        /\ responses[c] # << >>
        /\ responses[c][1].error # None /\ responses[c][1].id = Null
        /\ responses[c][1].jsonrpc = Some("2.0")
        /\ result[c][1].kind = "NonceMismatch"

\* C19: the nonce never goes down, only the increment of build_request changes
\* it, a step in which a call fails leaves it as it is, and a newly built
\* request has an id larger than every id returned before.
C19_NonceNeverGivenBack ==
    [][/\ nonce' >= nonce
       /\ nonce' # nonce => \E c \in Callers : pc[c] = "br_inc" /\ pc'[c] = "br_make"
       /\ \A c \in Callers :
             (result'[c] # result[c] /\ result'[c] # None /\ ~result'[c][1].ok) =>
                 nonce' = nonce
       /\ \A c \in Callers :
             (pc[c] = "br_make" /\ pc'[c] = "br_ret") =>
                 \A i \in 1..Len(issued) : built'[c][1].id.val > issued[i]]_vars

\* A do_rpc has failed after an earlier request was built; the nonce stands at
\* the id of the failed request.
C19_Witness ==
    \E c \in Callers :
        /\ pc[c] = "rpc_done" /\ ~result[c][1].ok
        /\ nonce >= 2 /\ built[c][1].id = Num(nonce)

\* C20: the nonce mutex is never held by a caller waiting for the transport,
\* and every build_request and last_nonce call that has begun returns, whatever
\* the other callers' sends do.
C20_NonceCallsReturn ==
    /\ [](\A c \in Callers : lock = c => pc[c] \in {"br_inc", "br_make", "br_ret", "ln_read"})
    /\ \A c \in Callers :
          /\ (pc[c] = "br_lock") ~> (pc[c] \in {"idle", "rpc_send"})
          /\ (pc[c] = "ln_lock") ~> (pc[c] = "ln_done")

\* One caller is about to return from build_request while the other is
\* suspended in a send.
C20_Witness ==
    \E c, d \in Callers :
        /\ pc[c] \in {"sr_await", "sb_await"}
        /\ pc[d] = "br_ret" /\ before[d] >= 1

====
